---- MODULE Spec2Model ----
(***************************************************************************)
(* Recurring-transaction processing of DjangoMoneyManagement:              *)
(* the process_recurring management command (commands/process_recurring.py)*)
(* run by the scheduled task, and the API/admin edits of the definitions.  *)
(*                                                                         *)
(* A date is the integer yyyymmdd (2024-01-31 is 20240131): the order of   *)
(* these integers is the order of the dates, and year, month and day are   *)
(* read off as datetime.date stores them.                                  *)
(***************************************************************************)
EXTENDS Integers, Sequences, FiniteSets, Bags, TLC

\* ------------------------------------------------------------------------
\* datetime.date, as process_recurring.py uses it
\* ------------------------------------------------------------------------

\* end_date = models.DateField(null=True): the absent date; also the value
\* calculate_next_occurrence returns for an unknown frequency.
None == 0

\* datetime.MAXYEAR: date.replace and date + timedelta fail beyond it.
MAXYEAR == 9999

MkDate(y, m, d) == y * 10000 + m * 100 + d
YearOf(dt) == dt \div 10000
MonthOf(dt) == (dt \div 100) % 100
DayOf(dt) == dt % 100

IsLeap(y) == (y % 4 = 0) /\ ((y % 100 # 0) \/ (y % 400 = 0))

\* calendar.monthrange(year, month)[1]
DaysInMonth(y, m) ==
    IF m = 2 THEN (IF IsLeap(y) THEN 29 ELSE 28)
    ELSE IF m \in {4, 6, 9, 11} THEN 30 ELSE 31

IsDate(dt) ==
    /\ YearOf(dt) \in 1..MAXYEAR
    /\ MonthOf(dt) \in 1..12
    /\ DayOf(dt) \in 1..DaysInMonth(YearOf(dt), MonthOf(dt))

\* number of days before January 1st of year y
DaysBeforeYear(y) ==
    (y - 1) * 365 + ((y - 1) \div 4) - ((y - 1) \div 100) + ((y - 1) \div 400)

RECURSIVE DaysBeforeMonth(_, _)
DaysBeforeMonth(y, m) ==
    IF m = 1 THEN 0 ELSE DaysBeforeMonth(y, m - 1) + DaysInMonth(y, m - 1)

\* date.toordinal(): 0001-01-01 is day 1
ToOrdinal(dt) ==
    DaysBeforeYear(YearOf(dt)) + DaysBeforeMonth(YearOf(dt), MonthOf(dt)) + DayOf(dt)

\* the year that holds ordinal n
YearOfOrdinal(n) ==
    LET guess == ((n - 1) \div 365) + 1
        Fits(y) == DaysBeforeYear(y) < n /\ n <= DaysBeforeYear(y + 1)
    IN  CHOOSE y \in (guess - 8)..guess : y >= 1 /\ Fits(y)

\* date.fromordinal(n)
FromOrdinal(n) ==
    LET y == YearOfOrdinal(n)
        r == n - DaysBeforeYear(y)
        m == CHOOSE k \in 1..12 :
                 DaysBeforeMonth(y, k) < r /\ r <= DaysBeforeMonth(y, k) + DaysInMonth(y, k)
    IN  MkDate(y, m, r - DaysBeforeMonth(y, m))

\* the calendar date after dt
DayAfter(dt) ==
    IF DayOf(dt) < DaysInMonth(YearOf(dt), MonthOf(dt)) THEN dt + 1
    ELSE IF MonthOf(dt) < 12 THEN MkDate(YearOf(dt), MonthOf(dt) + 1, 1)
    ELSE MkDate(YearOf(dt) + 1, 1, 1)

\* The outcome of an expression that may raise: a value, or an exception.
Return(v) == [raised |-> FALSE, value |-> v]
Raise == [raised |-> TRUE, value |-> None]

\* current_date + timedelta(days=n): OverflowError past date.max
AddDays(dt, n) ==
    IF ToOrdinal(dt) + n > ToOrdinal(MkDate(MAXYEAR, 12, 31))
    THEN Raise
    ELSE Return(FromOrdinal(ToOrdinal(dt) + n))

\* current_date.replace(year=y, month=m, day=d): ValueError when the
\* day does not exist in that month or the year is out of range
Replace(y, m, d) ==
    IF IsDate(MkDate(y, m, d)) THEN Return(MkDate(y, m, d)) ELSE Raise

\* ------------------------------------------------------------------------
\* Command.calculate_next_occurrence
\* ------------------------------------------------------------------------

Frequencies == {"DAILY", "WEEKLY", "BIWEEKLY", "MONTHLY", "QUARTERLY", "YEARLY"}

\* MONTHLY: both replace() calls stand before the try block, so their
\* ValueError leaves the function; `return next_month` cannot raise and the
\* except branch that clamps to the last day of the month is never entered.
NextMonthly(cur) ==
    IF MonthOf(cur) = 12
    THEN Replace(YearOf(cur) + 1, 1, DayOf(cur))
    ELSE Replace(YearOf(cur), MonthOf(cur) + 1, DayOf(cur))

\* NextQuarterly keeping month ends: a cursor on the last day of its month
\* goes to the last day of the target month
NextQuarterlyEndOfMonth(cur) ==
    LET m3 == MonthOf(cur) + 3
        month == IF m3 > 12 THEN m3 - 12 ELSE m3
        year == IF m3 > 12 THEN YearOf(cur) + 1 ELSE YearOf(cur)
        last_day == DaysInMonth(year, month)
    IN  IF DayOf(cur) = DaysInMonth(YearOf(cur), MonthOf(cur)) \/ DayOf(cur) > last_day
        THEN Replace(year, month, last_day)
        ELSE Replace(year, month, DayOf(cur))

\* NextQuarterly without the except branch: the ValueError of the first
\* replace() leaves the function
NextQuarterlyNoClamp(cur) ==
    LET m3 == MonthOf(cur) + 3
    IN  IF m3 > 12 THEN Replace(YearOf(cur) + 1, m3 - 12, DayOf(cur))
        ELSE Replace(YearOf(cur), m3, DayOf(cur))

\* QUARTERLY: replace() inside the try; on ValueError the day is clamped to
\* the last day of the target month (the second replace may raise again).
NextQuarterly(cur) ==
    LET m3 == MonthOf(cur) + 3
        month == IF m3 > 12 THEN m3 - 12 ELSE m3
        year == IF m3 > 12 THEN YearOf(cur) + 1 ELSE YearOf(cur)
        last_day == DaysInMonth(year, month)
        first == Replace(year, month, DayOf(cur))
    IN  IF ~first.raised THEN first
        ELSE Replace(year, month, IF DayOf(cur) < last_day THEN DayOf(cur) ELSE last_day)

\* NextYearly with the leap-day fallback moved to March 1st
NextYearlyMarchFirst(cur) ==
    LET first == Replace(YearOf(cur) + 1, MonthOf(cur), DayOf(cur))
    IN  IF ~first.raised THEN first
        ELSE Replace(YearOf(cur) + 1, MonthOf(cur) + 1, 1)

\* YEARLY: replace(year + 1) inside the try; on ValueError day 28 is used.
NextYearly(cur) ==
    LET first == Replace(YearOf(cur) + 1, MonthOf(cur), DayOf(cur))
    IN  IF ~first.raised THEN first
        ELSE Replace(YearOf(cur) + 1, MonthOf(cur), 28)

\* calculate_next_occurrence with timedelta(days=2) in place of
\* timedelta(weeks=2)
calculate_next_occurrence_BiweeklyAsDays(recurring) ==
    LET current_date == recurring.next_occurrence
    IN  CASE recurring.frequency = "DAILY" -> AddDays(current_date, 1)
          [] recurring.frequency = "WEEKLY" -> AddDays(current_date, 7)
          [] recurring.frequency = "BIWEEKLY" -> AddDays(current_date, 2)
          [] recurring.frequency = "MONTHLY" -> NextMonthly(current_date)
          [] recurring.frequency = "QUARTERLY" -> NextQuarterly(current_date)
          [] recurring.frequency = "YEARLY" -> NextYearly(current_date)
          [] OTHER -> Return(None)

\* The date after recurring.next_occurrence for recurring.frequency: a
\* returned date, a returned None (unknown frequency), or an exception.
calculate_next_occurrence(recurring) ==
    LET current_date == recurring.next_occurrence
    IN  CASE recurring.frequency = "DAILY" -> AddDays(current_date, 1)
          [] recurring.frequency = "WEEKLY" -> AddDays(current_date, 7)
          [] recurring.frequency = "BIWEEKLY" -> AddDays(current_date, 14)
          [] recurring.frequency = "MONTHLY" -> NextMonthly(current_date)
          [] recurring.frequency = "QUARTERLY" -> NextQuarterly(current_date)
          [] recurring.frequency = "YEARLY" -> NextYearly(current_date)
          [] OTHER -> Return(None)

\* ------------------------------------------------------------------------
\* Bounds and inputs
\* ------------------------------------------------------------------------

\* number of passes started
MaxPasses == 2
\* number of disturbances of the passes: store failures and worker
\* interruptions (faults), API / admin updates of a definition (edits)
MaxDisturbances == 1

\* dates given to next_occurrence and start_date at creation or by an edit
CursorDates == {20231030, 20240108, 20240131}
\* values given to end_date
EndDates == {None, 20240108, 20240115}
\* dates on which date.today() is read
ClockDates == {20240108, 20240130, 20240131}

\* the process that runs the command (the scheduled task of core/celery.py)
Workers == {"beat"}

\* the years of the cursors given to the date computation: a leap year and
\* its neighbours, and datetime.MAXYEAR
DateYears == {2023, 2024, 2025, MAXYEAR}
\* every calendar date of those years
DateInputs ==
    {dt \in {MkDate(y, m, d) : y \in DateYears, m \in 1..12, d \in 1..31} : IsDate(dt)}
\* the values of the frequency column: the six choices, and a value outside
\* them (max_length=15 is all the column itself enforces)
FrequencyInputs == Frequencies \cup {"HOURLY"}

\* ------------------------------------------------------------------------
\* State
\* ------------------------------------------------------------------------

VARIABLES
    recurrings,      \* RecurringTransaction table: id -> row
    transactions,    \* Transaction rows created by the command: a bag of rows
    clock,           \* the calendar date date.today() returns
    pass_dates,      \* the date each pass started so far has read (line 13)
    faults,          \* store failures and interruptions so far
    edits,           \* updates through API / admin so far
    pc,              \* per worker: "idle", "loop", "created", "done"
    today,           \* per worker: line 13
    due_recurring,   \* per worker: the evaluated queryset, id -> row as fetched
    pending,         \* per worker: ids of due_recurring not yet iterated
    current,         \* per worker: id of the loop variable `recurring`
    pass_id,         \* per worker: number of the pass it runs
    processed_count, \* per worker: line 21
    errors,          \* per worker: the iterations that ended in the except branch
    goal,            \* a Goal row: target_amount, current_amount, is_achieved
    response         \* the last response of the recurring-transaction create endpoint

vars == <<recurrings, transactions, clock, pass_dates, faults, edits, pc, today,
          due_recurring, pending, current, pass_id, processed_count, errors,
          goal, response>>

\* what the command never reads or writes
apiVars == <<goal, response>>

\* no goal row / no request made yet
NoGoal == [target_amount |-> 0, current_amount |-> 0, is_achieved |-> FALSE]
NoResponse == [status |-> 0]

passVars == <<pc, today, due_recurring, pending, current, pass_id,
              processed_count, errors>>

Ids == DOMAIN recurrings

\* number of passes started so far
passes == Len(pass_dates)

\* a RecurringTransaction row. user and category are the keys of the rows
\* they refer to (category None: the null foreign key), amount is in cents.
Row(f, s, e, n, a) ==
    [frequency |-> f, start_date |-> s, end_date |-> e,
     next_occurrence |-> n, is_active |-> a,
     user |-> 1, amount |-> 150000, description |-> "rent", category |-> 1,
     transaction_type |-> "EXPENSE"]

\* the columns definition id of a batch was created with: two owners, a
\* null category among the categories, both transaction types
WithColumns(id, row) ==
    [row EXCEPT !.user = 1 + (id % 2),
                !.amount = id * 2500,
                !.description = IF id % 2 = 1 THEN "rent" ELSE "salary",
                !.category = id % 3,
                !.transaction_type = IF id % 2 = 1 THEN "EXPENSE" ELSE "INCOME"]

\* IsDue with the is_active filter left out
IsDueIgnoringActive(row, asOf) == row.next_occurrence <= asOf

\* IsDue with next_occurrence__lt in place of next_occurrence__lte
IsDueStrictlyBefore(row, asOf) == row.is_active /\ row.next_occurrence < asOf

\* RecurringTransaction.objects.filter(is_active=True, next_occurrence__lte=today)
IsDue(row, asOf) == row.is_active /\ row.next_occurrence <= asOf

DueIds(asOf) == {id \in Ids : IsDue(recurrings[id], asOf)}

\* NewTransaction dated with the date the pass read (today) in place of
\* recurring.next_occurrence
NewTransactionDatedToday(id, row, p) ==
    [user |-> row.user, amount |-> row.amount, description |-> row.description,
     category |-> row.category, transaction_type |-> row.transaction_type,
     date |-> pass_dates[p], recurring_id |-> id, is_recurring |-> TRUE, pass |-> p]

\* lines 26-35: the row Transaction.objects.create inserts. recurring_id is
\* the id written into notes; pass (the pass that made the row) stands for
\* created_at.
NewTransaction(id, row, p) ==
    [user |-> row.user, amount |-> row.amount, description |-> row.description,
     category |-> row.category, transaction_type |-> row.transaction_type,
     date |-> row.next_occurrence, recurring_id |-> id, is_recurring |-> TRUE,
     pass |-> p]

\* StaysActive with next_date < end_date in place of <=
StaysActiveStrictlyBefore(row, next_date) ==
    next_date # None /\ (row.end_date = None \/ next_date < row.end_date)

\* line 40: keep the definition active with the new cursor?
StaysActive(row, next_date) ==
    next_date # None /\ (row.end_date = None \/ next_date <= row.end_date)

\* Advanced with the cursor moved two periods when the second one exists
AdvancedTwoPeriods(row, next_date) ==
    LET second == calculate_next_occurrence([row EXCEPT !.next_occurrence = next_date])
    IN  IF next_date # None /\ (row.end_date = None \/ next_date <= row.end_date)
        THEN [row EXCEPT !.next_occurrence =
                            IF second.raised THEN next_date ELSE second.value]
        ELSE [row EXCEPT !.is_active = FALSE]

\* lines 40-46: the object that recurring.save() writes, from the fetched row
Advanced(row, next_date) ==
    IF StaysActive(row, next_date)
    THEN [row EXCEPT !.next_occurrence = next_date]
    ELSE [row EXCEPT !.is_active = FALSE]

EmptyMap == [id \in {} |-> None]

\* lines 55-61: the error logged for definition id, and the place of its
\* iteration in the loop (the lines the command has written so far)
LoggedError(w, id) ==
    [id |-> id, position |-> processed_count[w] + Cardinality(errors[w]) + 1]

ErrorIds(w) == {e.id : e \in errors[w]}

\* the definitions the admin has created: every field is given on the
\* RecurringTransactionAdmin add form, is_active defaults to True
InitialRows ==
    {Row(f, n, e, n, TRUE) : f \in Frequencies, n \in CursorDates, e \in EndDates}

\* the definitions of a batch: due on every clock date or on the last one,
\* among them a MONTHLY definition on day 31
BatchRows ==
    {Row(f, n, None, n, TRUE) : f \in {"DAILY", "MONTHLY"}, n \in {20240108, 20240131}}

InitRest ==
    /\ transactions = EmptyBag
    /\ clock \in ClockDates
    /\ pass_dates = <<>>
    /\ faults = 0
    /\ edits = 0
    /\ pc = [w \in Workers |-> "idle"]
    /\ today = [w \in Workers |-> None]
    /\ due_recurring = [w \in Workers |-> EmptyMap]
    /\ pending = [w \in Workers |-> {}]
    /\ current = [w \in Workers |-> 0]
    /\ pass_id = [w \in Workers |-> 0]
    /\ processed_count = [w \in Workers |-> 0]
    /\ errors = [w \in Workers |-> {}]
    /\ goal = NoGoal
    /\ response = NoResponse

\* one definition, any frequency, cursor and end date
Init ==
    /\ recurrings \in [{1} -> InitialRows]
    /\ InitRest

\* a batch of definitions processed by the same pass
BatchSize == 3

InitBatch ==
    /\ recurrings \in {[id \in 1..BatchSize |-> WithColumns(id, rows[id])] :
                          rows \in [1..BatchSize -> BatchRows]}
    /\ InitRest

\* a definition of any frequency whose cursor is any date, due today, and
\* beside it a WEEKLY definition due since 2023-01-01
InitDates ==
    /\ \E f \in FrequencyInputs, d \in DateInputs :
          /\ recurrings = [id \in {1, 2} |->
                              IF id = 1 THEN Row(f, d, None, d, TRUE)
                              ELSE WithColumns(2, Row("WEEKLY", 20230101, None, 20230101, TRUE))]
          /\ clock = d
    /\ transactions = EmptyBag
    /\ pass_dates = <<>>
    /\ faults = 0
    /\ edits = 0
    /\ pc = [w \in Workers |-> "idle"]
    /\ today = [w \in Workers |-> None]
    /\ due_recurring = [w \in Workers |-> EmptyMap]
    /\ pending = [w \in Workers |-> {}]
    /\ current = [w \in Workers |-> 0]
    /\ pass_id = [w \in Workers |-> 0]
    /\ processed_count = [w \in Workers |-> 0]
    /\ errors = [w \in Workers |-> {}]
    /\ goal = NoGoal
    /\ response = NoResponse

\* ------------------------------------------------------------------------
\* Environment: the calendar, the admin and the API
\* ------------------------------------------------------------------------

\* time passes
Tick ==
    /\ \E d \in ClockDates : d > clock /\ clock' = d
    /\ UNCHANGED apiVars
    /\ UNCHANGED <<recurrings, transactions, pass_dates, faults, edits, passVars>>

\* RecurringTransactionViewSet update / partial_update: next_occurrence is
\* read-only, is_active and end_date are writable
ApiUpdate ==
    /\ faults + edits < MaxDisturbances
    /\ \E id \in Ids, a \in BOOLEAN, e \in EndDates :
          /\ [recurrings[id] EXCEPT !.is_active = a, !.end_date = e] # recurrings[id]
          /\ recurrings' = [recurrings EXCEPT ![id].is_active = a, ![id].end_date = e]
    /\ edits' = edits + 1
    /\ UNCHANGED apiVars
    /\ UNCHANGED <<transactions, clock, pass_dates, faults, passVars>>

\* RecurringTransactionAdmin change form: next_occurrence is editable
AdminChange ==
    /\ faults + edits < MaxDisturbances
    /\ \E id \in Ids, n \in CursorDates :
          /\ n # recurrings[id].next_occurrence
          /\ recurrings' = [recurrings EXCEPT ![id].next_occurrence = n]
    /\ edits' = edits + 1
    /\ UNCHANGED apiVars
    /\ UNCHANGED <<transactions, clock, pass_dates, faults, passVars>>

\* RecurringTransactionSerializer on a create request: next_occurrence is in
\* read_only_fields, so a value the caller sends is dropped and the instance
\* is built without it; is_active is taken from the request
ValidatedCreate(request) ==
    Row(request.frequency, request.start_date, request.end_date, None,
        request.is_active)

\* the NOT NULL constraint of next_occurrence = models.DateField()
Insertable(row) == row.next_occurrence # None

\* RecurringTransactionViewSet.create / perform_create: serializer.save(user)
\* inserts the validated row; the IntegrityError of the store is not caught
\* and the response is a 500
ApiCreate ==
    /\ faults + edits < MaxDisturbances
    /\ edits' = edits + 1
    /\ \E f \in Frequencies, s \in CursorDates, e \in EndDates,
          n \in CursorDates \cup {None}, a \in BOOLEAN :
          LET request == [frequency |-> f, start_date |-> s, end_date |-> e,
                          next_occurrence |-> n, is_active |-> a]
              row == ValidatedCreate(request)
              id == Cardinality(Ids) + 1
          IN  IF Insertable(row)
              THEN /\ recurrings' = [i \in Ids \cup {id} |->
                                       IF i = id THEN row ELSE recurrings[i]]
                   /\ response' = [status |-> 201, id |-> id, request |-> request]
              ELSE /\ response' = [status |-> 500, id |-> None, request |-> request]
                   /\ UNCHANGED recurrings
    /\ UNCHANGED <<transactions, clock, pass_dates, faults, goal, passVars>>

\* the days on which the ledger is looked at: two days of January 2024 and
\* a day more than seven years later
LedgerDates == {20240108, 20240131, 20310201}

LedgerTick ==
    /\ \E d \in LedgerDates : d > clock /\ clock' = d
    /\ UNCHANGED <<recurrings, transactions, pass_dates, faults, edits, passVars, apiVars>>

\* the date a transaction row was created on (created_at, auto_now_add)
CreatedOn(t) == pass_dates[t.pass]

\* CleanupCutoff with timedelta(days=7) in place of timedelta(days=7*365)
CleanupCutoffSevenDays(now) == AddDays(now, 0 - 7).value

\* cutoff_date = timezone.now() - timedelta(days=7*365)
CleanupCutoff(now) == AddDays(now, 0 - (7 * 365)).value

\* api.tasks.cleanup_old_data: Transaction.objects.filter(created_at__lt=
\* cutoff_date).delete()
cleanup_old_data ==
    /\ LET kept == {t \in BagToSet(transactions) : ~(CreatedOn(t) < CleanupCutoff(clock))}
       IN  transactions' = [t \in kept |-> transactions[t]]
    /\ UNCHANGED <<recurrings, clock, pass_dates, faults, edits, passVars, apiVars>>

\* the amounts a transaction is changed to through the API
AmountInputs == {1, 99900}

\* TransactionViewSet update / partial_update by the owner: every column of
\* TransactionSerializer but created_at and updated_at is writable
ApiTransactionUpdate ==
    /\ faults + edits < MaxDisturbances
    /\ edits' = edits + 1
    /\ \E t \in BagToSet(transactions), a \in AmountInputs :
          /\ a # t.amount
          /\ transactions' = (transactions (-) SetToBag({t}))
                                 (+) SetToBag({[t EXCEPT !.amount = a]})
    /\ UNCHANGED <<recurrings, clock, pass_dates, faults, passVars, apiVars>>

\* TransactionViewSet destroy by the owner
ApiTransactionDestroy ==
    /\ faults + edits < MaxDisturbances
    /\ edits' = edits + 1
    /\ \E t \in BagToSet(transactions) :
          transactions' = transactions (-) SetToBag({t})
    /\ UNCHANGED <<recurrings, clock, pass_dates, faults, passVars, apiVars>>

\* number of update_progress requests
MaxUpdates == 3

\* the amounts of the update_progress requests, in cents; 0 stands for a
\* request whose amount is missing or zero
ProgressAmounts == {0 - 3000, 0 - 1000, 0, 500, 1000, 6000}

\* GoalViewSet.update_progress: a missing or zero amount is answered 400;
\* otherwise the amount is added, and when the target is reached is_achieved
\* is set and current_amount is cut to target_amount; goal.save()
update_progress ==
    /\ edits < MaxUpdates
    /\ edits' = edits + 1
    /\ \E amount \in ProgressAmounts :
          IF amount = 0
          THEN UNCHANGED goal
          ELSE LET current_amount == goal.current_amount + amount
               IN  IF current_amount >= goal.target_amount
                   THEN goal' = [goal EXCEPT !.is_achieved = TRUE,
                                             !.current_amount = goal.target_amount]
                   ELSE goal' = [goal EXCEPT !.current_amount = current_amount]
    /\ UNCHANGED <<recurrings, transactions, clock, pass_dates, faults, response, passVars>>

\* ------------------------------------------------------------------------
\* Command.handle, one pass of worker w
\* ------------------------------------------------------------------------

\* lines 13-21: read the date, evaluate the queryset
StartPass(w) ==
    /\ pc[w] \in {"idle", "done"}
    /\ passes < MaxPasses
    /\ pass_dates' = Append(pass_dates, clock)
    /\ pass_id' = [pass_id EXCEPT ![w] = passes + 1]
    /\ today' = [today EXCEPT ![w] = clock]
    /\ due_recurring' = [due_recurring EXCEPT ![w] =
                            [id \in DueIds(clock) |-> recurrings[id]]]
    /\ pending' = [pending EXCEPT ![w] = DueIds(clock)]
    /\ current' = [current EXCEPT ![w] = 0]
    /\ processed_count' = [processed_count EXCEPT ![w] = 0]
    /\ errors' = [errors EXCEPT ![w] = {}]
    /\ pc' = [pc EXCEPT ![w] = "loop"]
    /\ UNCHANGED apiVars
    /\ UNCHANGED <<recurrings, transactions, clock, faults, edits>>

\* lines 23-35: next loop iteration, Transaction.objects.create succeeds
Materialize(w) ==
    /\ pc[w] = "loop"
    /\ \E id \in pending[w] :
          /\ current' = [current EXCEPT ![w] = id]
          /\ pending' = [pending EXCEPT ![w] = @ \ {id}]
          /\ transactions' = transactions (+)
                 SetToBag({NewTransaction(id, due_recurring[w][id], pass_id[w])})
    /\ pc' = [pc EXCEPT ![w] = "created"]
    /\ UNCHANGED apiVars
    /\ UNCHANGED <<recurrings, clock, pass_dates, faults, edits, today, due_recurring,
                   pass_id, processed_count, errors>>

\* MaterializeFails with the exception leaving the loop: the pass ends with
\* the remaining definitions not iterated
MaterializeFailsEndingPass(w) ==
    /\ pc[w] = "loop"
    /\ faults + edits < MaxDisturbances
    /\ faults' = faults + 1
    /\ \E id \in pending[w] :
          /\ current' = [current EXCEPT ![w] = id]
          /\ pending' = [pending EXCEPT ![w] = @ \ {id}]
          /\ errors' = [errors EXCEPT ![w] = @ \cup {LoggedError(w, id)}]
    /\ pc' = [pc EXCEPT ![w] = "done"]
    /\ UNCHANGED apiVars
    /\ UNCHANGED <<recurrings, transactions, clock, pass_dates, edits, today,
                   due_recurring, pass_id, processed_count>>

\* lines 23-35 and 55-61: the store rejects the create; the except branch
\* records the error and the loop goes on
MaterializeFails(w) ==
    /\ pc[w] = "loop"
    /\ faults + edits < MaxDisturbances
    /\ faults' = faults + 1
    /\ \E id \in pending[w] :
          /\ current' = [current EXCEPT ![w] = id]
          /\ pending' = [pending EXCEPT ![w] = @ \ {id}]
          /\ errors' = [errors EXCEPT ![w] = @ \cup {LoggedError(w, id)}]
    /\ UNCHANGED apiVars
    /\ UNCHANGED <<recurrings, transactions, clock, pass_dates, edits, pc, today,
                   due_recurring, pass_id, processed_count>>

\* AdvanceOrTerminate without the except branch of lines 55-61: an exception
\* of calculate_next_occurrence leaves handle() and the pass is over without
\* its report
AdvanceOrTerminatePropagating(w) ==
    /\ pc[w] = "created"
    /\ LET id == current[w]
           row == due_recurring[w][id]
           next_date == calculate_next_occurrence(row)
       IN  IF next_date.raised
           THEN /\ pc' = [pc EXCEPT ![w] = "crashed"]
                /\ UNCHANGED <<recurrings, processed_count, errors>>
           ELSE /\ recurrings' = [recurrings EXCEPT ![id] = Advanced(row, next_date.value)]
                /\ processed_count' = [processed_count EXCEPT ![w] = @ + 1]
                /\ pc' = [pc EXCEPT ![w] = "loop"]
                /\ UNCHANGED errors
    /\ UNCHANGED apiVars
    /\ UNCHANGED <<transactions, clock, pass_dates, faults, edits, today, due_recurring,
                   pending, current, pass_id>>

\* AdvanceOrTerminate with the new cursor written by a queryset update
\* (due_recurring.update(next_occurrence=next_date)) to every selected
\* definition, in place of recurring.save()
AdvanceOrTerminateBulk(w) ==
    /\ pc[w] = "created"
    /\ LET id == current[w]
           row == due_recurring[w][id]
           next_date == calculate_next_occurrence(row)
       IN  IF next_date.raised
           THEN /\ errors' = [errors EXCEPT ![w] = @ \cup {LoggedError(w, id)}]
                /\ UNCHANGED <<recurrings, processed_count>>
           ELSE /\ recurrings' =
                       [i \in Ids |->
                           IF i = id THEN Advanced(row, next_date.value)
                           ELSE IF i \in DOMAIN due_recurring[w] /\ StaysActive(row, next_date.value)
                                THEN [recurrings[i] EXCEPT !.next_occurrence = next_date.value]
                                ELSE recurrings[i]]
                /\ processed_count' = [processed_count EXCEPT ![w] = @ + 1]
                /\ UNCHANGED errors
    /\ pc' = [pc EXCEPT ![w] = "loop"]
    /\ UNCHANGED apiVars
    /\ UNCHANGED <<transactions, clock, pass_dates, faults, edits, today, due_recurring,
                   pending, current, pass_id>>

\* lines 37-53: compute the next date and save the definition; an exception
\* of calculate_next_occurrence goes to the except branch (lines 55-61)
AdvanceOrTerminate(w) ==
    /\ pc[w] = "created"
    /\ LET id == current[w]
           row == due_recurring[w][id]
           next_date == calculate_next_occurrence(row)
       IN  IF next_date.raised
           THEN /\ errors' = [errors EXCEPT ![w] = @ \cup {LoggedError(w, id)}]
                /\ UNCHANGED <<recurrings, processed_count>>
           ELSE /\ recurrings' = [recurrings EXCEPT ![id] = Advanced(row, next_date.value)]
                /\ processed_count' = [processed_count EXCEPT ![w] = @ + 1]
                /\ UNCHANGED errors
    /\ pc' = [pc EXCEPT ![w] = "loop"]
    /\ UNCHANGED apiVars
    /\ UNCHANGED <<transactions, clock, pass_dates, faults, edits, today, due_recurring,
                   pending, current, pass_id>>

\* lines 42/46 and 55-61: the store rejects recurring.save()
SaveFails(w) ==
    /\ pc[w] = "created"
    /\ faults + edits < MaxDisturbances
    /\ faults' = faults + 1
    /\ ~calculate_next_occurrence(due_recurring[w][current[w]]).raised
    /\ errors' = [errors EXCEPT ![w] = @ \cup {LoggedError(w, current[w])}]
    /\ pc' = [pc EXCEPT ![w] = "loop"]
    /\ UNCHANGED apiVars
    /\ UNCHANGED <<recurrings, transactions, clock, pass_dates, edits, today,
                   due_recurring, pending, current, pass_id, processed_count>>

\* lines 63-65: the loop is over, the count is reported
EndPass(w) ==
    /\ pc[w] = "loop"
    /\ pending[w] = {}
    /\ pc' = [pc EXCEPT ![w] = "done"]
    /\ UNCHANGED apiVars
    /\ UNCHANGED <<recurrings, transactions, clock, pass_dates, faults, edits, today,
                   due_recurring, pending, current, pass_id, processed_count, errors>>

\* the worker process is killed in the middle of a pass: what it held in
\* memory is gone, what it wrote to the store stays
Interrupt(w) ==
    /\ pc[w] \in {"loop", "created"}
    /\ faults + edits < MaxDisturbances
    /\ faults' = faults + 1
    /\ pc' = [pc EXCEPT ![w] = "idle"]
    /\ today' = [today EXCEPT ![w] = None]
    /\ due_recurring' = [due_recurring EXCEPT ![w] = EmptyMap]
    /\ pending' = [pending EXCEPT ![w] = {}]
    /\ current' = [current EXCEPT ![w] = 0]
    /\ processed_count' = [processed_count EXCEPT ![w] = 0]
    /\ errors' = [errors EXCEPT ![w] = {}]
    /\ UNCHANGED apiVars
    /\ UNCHANGED <<recurrings, transactions, clock, pass_dates, edits, pass_id>>

Pass(w) ==
    \/ StartPass(w)
    \/ Materialize(w)
    \/ MaterializeFails(w)
    \/ AdvanceOrTerminate(w)
    \/ SaveFails(w)
    \/ EndPass(w)
    \/ Interrupt(w)

Next ==
    \/ Tick
    \/ ApiUpdate
    \/ AdminChange
    \/ \E w \in Workers : Pass(w)

Spec == Init /\ [][Next]_vars

\* one pass alone, over a batch of definitions
NextBatch ==
    \/ Tick
    \/ \E w \in Workers : Pass(w) /\ Len(pass_dates') = 1

SpecBatch == InitBatch /\ [][NextBatch]_vars

\* an empty table, create requests through the API, and passes
InitCreate ==
    /\ recurrings = EmptyMap
    /\ InitRest

NextCreate ==
    \/ Tick
    \/ ApiCreate
    \/ \E w \in Workers : StartPass(w) \/ EndPass(w)

SpecCreate == InitCreate /\ [][NextCreate]_vars

\* one DAILY or WEEKLY definition due on 2024-01-08, the passes, the cleanup
\* task and the transaction API
LedgerRows == {Row(f, 20240108, None, 20240108, TRUE) : f \in {"DAILY", "WEEKLY"}}

InitLedger ==
    /\ recurrings \in [{1} -> LedgerRows]
    /\ transactions = EmptyBag
    /\ clock \in LedgerDates
    /\ pass_dates = <<>>
    /\ faults = 0
    /\ edits = 0
    /\ pc = [w \in Workers |-> "idle"]
    /\ today = [w \in Workers |-> None]
    /\ due_recurring = [w \in Workers |-> EmptyMap]
    /\ pending = [w \in Workers |-> {}]
    /\ current = [w \in Workers |-> 0]
    /\ pass_id = [w \in Workers |-> 0]
    /\ processed_count = [w \in Workers |-> 0]
    /\ errors = [w \in Workers |-> {}]
    /\ goal = NoGoal
    /\ response = NoResponse

NextLedger ==
    \/ LedgerTick
    \/ cleanup_old_data
    \/ ApiTransactionUpdate
    \/ ApiTransactionDestroy
    \/ \E w \in Workers : Pass(w)

SpecLedger == InitLedger /\ [][NextLedger]_vars

\* two processes that run the command: the scheduled task, and the command
\* started by hand (manage.py process_recurring) or by a second delivery of
\* the task
OverlapWorkers == {"beat", "cli"}

\* one DAILY or WEEKLY definition due on 2024-01-08, with or without an end
OverlapRows ==
    {Row(f, 20240108, e, 20240108, TRUE) : f \in {"DAILY", "WEEKLY"}, e \in {None, 20240108}}

InitOverlap ==
    /\ recurrings \in [{1} -> OverlapRows]
    /\ transactions = EmptyBag
    /\ clock \in {20240108, 20240131}
    /\ pass_dates = <<>>
    /\ faults = 0
    /\ edits = 0
    /\ pc = [w \in OverlapWorkers |-> "idle"]
    /\ today = [w \in OverlapWorkers |-> None]
    /\ due_recurring = [w \in OverlapWorkers |-> EmptyMap]
    /\ pending = [w \in OverlapWorkers |-> {}]
    /\ current = [w \in OverlapWorkers |-> 0]
    /\ pass_id = [w \in OverlapWorkers |-> 0]
    /\ processed_count = [w \in OverlapWorkers |-> 0]
    /\ errors = [w \in OverlapWorkers |-> {}]
    /\ goal = NoGoal
    /\ response = NoResponse

\* the steps of both processes interleave; no store failure, no interruption
NextOverlap ==
    \E w \in OverlapWorkers :
        StartPass(w) \/ Materialize(w) \/ AdvanceOrTerminate(w) \/ EndPass(w)

SpecOverlap == InitOverlap /\ [][NextOverlap]_vars

\* the days of the daily schedule: crontab(hour=0, minute=30)
SeriesDays == {20250228, 20250301, 20250302}

\* the next day begins
NextDay ==
    /\ DayAfter(clock) \in SeriesDays
    /\ clock' = DayAfter(clock)
    /\ UNCHANGED <<recurrings, transactions, pass_dates, faults, edits, passVars, apiVars>>

\* definitions whose series is behind on 2025-02-28: bounded WEEKLY and
\* MONTHLY ones with one or two occurrences left up to their end_date, and
\* QUARTERLY and YEARLY ones started on the last days of a month of 2023 or
\* 2024
SeriesRows ==
    {Row("WEEKLY", 20240124, 20240131, 20240124, TRUE),
     Row("BIWEEKLY", 20240117, 20240131, 20240117, TRUE),
     Row("MONTHLY", 20240115, 20240215, 20240115, TRUE),
     Row("MONTHLY", 20240131, 20240331, 20240131, TRUE),
     Row("YEARLY", 20230310, 20240310, 20230310, TRUE)}
    \cup {Row(f, n, None, n, TRUE) :
             f \in {"QUARTERLY", "YEARLY"},
             n \in {dt \in {MkDate(y, m, d) : y \in {2023, 2024}, m \in 1..12, d \in 28..31} :
                       IsDate(dt)}}

InitSeries ==
    /\ recurrings \in [{1} -> SeriesRows]
    /\ transactions = EmptyBag
    /\ clock = 20250228
    /\ pass_dates = <<>>
    /\ faults = 0
    /\ edits = 0
    /\ pc = [w \in Workers |-> "idle"]
    /\ today = [w \in Workers |-> None]
    /\ due_recurring = [w \in Workers |-> EmptyMap]
    /\ pending = [w \in Workers |-> {}]
    /\ current = [w \in Workers |-> 0]
    /\ pass_id = [w \in Workers |-> 0]
    /\ processed_count = [w \in Workers |-> 0]
    /\ errors = [w \in Workers |-> {}]
    /\ goal = NoGoal
    /\ response = NoResponse

\* the passes of successive days, without store failure or interruption
NextSeries ==
    \/ NextDay
    \/ \E w \in Workers :
          StartPass(w) \/ Materialize(w) \/ AdvanceOrTerminate(w) \/ EndPass(w)

SpecSeries == InitSeries /\ [][NextSeries]_vars

\* a goal that is not achieved, with current_amount below target_amount
GoalRows ==
    {[target_amount |-> t, current_amount |-> c, is_achieved |-> FALSE] :
        t \in {5000, 10000}, c \in {0, 4000, 9000}}

InitGoal ==
    /\ goal \in {g \in GoalRows : g.current_amount < g.target_amount}
    /\ recurrings = EmptyMap
    /\ transactions = EmptyBag
    /\ clock = 20240108
    /\ pass_dates = <<>>
    /\ faults = 0
    /\ edits = 0
    /\ pc = [w \in Workers |-> "idle"]
    /\ today = [w \in Workers |-> None]
    /\ due_recurring = [w \in Workers |-> EmptyMap]
    /\ pending = [w \in Workers |-> {}]
    /\ current = [w \in Workers |-> 0]
    /\ pass_id = [w \in Workers |-> 0]
    /\ processed_count = [w \in Workers |-> 0]
    /\ errors = [w \in Workers |-> {}]
    /\ response = NoResponse

NextGoal == update_progress

SpecGoal == InitGoal /\ [][NextGoal]_vars

\* one pass over a batch, with store failures, whose worker is not killed:
\* the command, once started by the task, goes on executing
NextErrors ==
    \E w \in Workers :
        /\ \/ StartPass(w)
           \/ Materialize(w)
           \/ MaterializeFails(w)
           \/ AdvanceOrTerminate(w)
           \/ SaveFails(w)
           \/ EndPass(w)
        /\ Len(pass_dates') = 1

\* the batches of a pass run on 2024-01-31 whose definitions are each a
\* DAILY one due since 2024-01-08 or a MONTHLY one due on 2024-01-31
InitErrors ==
    /\ InitBatch
    /\ clock = 20240131
    /\ \A id \in Ids :
          recurrings[id].frequency = "DAILY" <=> recurrings[id].next_occurrence = 20240108

SpecErrors == InitErrors /\ [][NextErrors]_vars /\ WF_vars(NextErrors)

\* one pass without store failure or interruption
NextDates ==
    \E w \in Workers :
        /\ StartPass(w) \/ Materialize(w) \/ AdvanceOrTerminate(w) \/ EndPass(w)
        /\ Len(pass_dates') = 1

SpecDates == InitDates /\ [][NextDates]_vars

\* ------------------------------------------------------------------------
\* Properties
\* ------------------------------------------------------------------------

\* the rows of the Transaction table
Rows == BagToSet(transactions)

\* number of transactions pass p created from definition id with date d
Created(id, d, p) ==
    LET made == {t \in Rows : t.recurring_id = id /\ t.date = d /\ t.pass = p}
    IN  BagCardinality([t \in made |-> transactions[t]])

\* a run without store failure, interruption or API / admin update
Undisturbed == faults = 0 /\ edits = 0

\* the row worker w fetched for the definition of its current iteration
Fetched(w) == due_recurring[w][current[w]]

\* the same day in the month after cur, or the last day of that month when
\* it has no such day
MonthlyClamped(cur) ==
    LET y == IF MonthOf(cur) = 12 THEN YearOf(cur) + 1 ELSE YearOf(cur)
        m == IF MonthOf(cur) = 12 THEN 1 ELSE MonthOf(cur) + 1
        last == DaysInMonth(y, m)
    IN  MkDate(y, m, IF DayOf(cur) <= last THEN DayOf(cur) ELSE last)

\* C1: for a MONTHLY definition the command computes, for every cursor, the
\* same day-of-month in the following month (December to January of the next
\* year), clamped to the last day of that month when the day does not exist
\* there (2024-01-31 gives 2024-02-29), and it does not fail.
C1_MonthlySameDayOrClamped ==
    \A w \in Workers :
        (pc[w] = "created" /\ Fetched(w).frequency = "MONTHLY")
            => /\ calculate_next_occurrence(Fetched(w))
                    = Return(MonthlyClamped(Fetched(w).next_occurrence))
               /\ Fetched(w).next_occurrence = 20240131
                    => calculate_next_occurrence(Fetched(w)) = Return(20240229)

\* C2: after a pass, for every definition the pass selected, either its
\* transaction exists and the definition was advanced or terminated, or no
\* transaction was created and next_occurrence and is_active are as fetched
\* (stated for passes without store failure, interruption or edit: the date
\* computation alone can fail).
C2_MaterializeAndAdvanceAsUnit ==
    \A w \in Workers :
        (pc[w] = "done" /\ Undisturbed)
            => \A id \in DOMAIN due_recurring[w] :
                  LET snap == due_recurring[w][id]
                      made == Created(id, snap.next_occurrence, pass_id[w]) > 0
                      moved == \/ recurrings[id].next_occurrence # snap.next_occurrence
                               \/ recurrings[id].is_active # snap.is_active
                  IN  (made /\ moved) \/ (~made /\ ~moved)

\* C3: over any sequence of passes, for each definition and each date at
\* most one transaction is materialized (stated for runs in which only passes
\* happen, none of them interrupted or hit by a store failure).
C3_AtMostOnePerDate ==
    Undisturbed
        => \A t1, t2 \in Rows :
              (t1.recurring_id = t2.recurring_id /\ t1.date = t2.date)
                  => (t1 = t2 /\ CopiesIn(t1, transactions) = 1)

\* C4: two passes that read the same date, with no other change to the
\* definition in between, materialize each due occurrence only once: the
\* later pass creates no transaction for an occurrence the earlier one
\* materialized.
C4_SameDateRerunCreatesNoDuplicate ==
    Undisturbed
        => \A p, q \in 1..Len(pass_dates) :
              (p < q /\ pass_dates[p] = pass_dates[q])
                  => ~ \E t1, t2 \in Rows :
                          /\ t1.pass = p /\ t2.pass = q
                          /\ t1.recurring_id = t2.recurring_id
                          /\ t1.date = t2.date

\* pass p has a transaction of definition id
MadeIn(id, p) == \E t \in Rows : t.recurring_id = id /\ t.pass = p

\* C5: a failure in one iteration does not stop the pass: at the end of the
\* pass every selected definition was iterated, every one that did not fail
\* has its transaction and was advanced or terminated, a failed one has
\* next_occurrence and is_active as fetched, and the count is the number of
\* selected definitions less the errors (3 selected, 1 error: 2 reported).
C5_FailureIsolated ==
    \A w \in Workers :
        pc[w] = "done"
            => /\ processed_count[w] + Cardinality(errors[w])
                    = Cardinality(DOMAIN due_recurring[w])
               /\ Cardinality(ErrorIds(w)) = Cardinality(errors[w])
               /\ \A id \in DOMAIN due_recurring[w] :
                     LET snap == due_recurring[w][id]
                     IN  IF id \in ErrorIds(w)
                         THEN /\ recurrings[id].next_occurrence = snap.next_occurrence
                              /\ recurrings[id].is_active = snap.is_active
                         ELSE /\ Created(id, snap.next_occurrence, pass_id[w]) = 1
                              /\ \/ recurrings[id].next_occurrence > snap.next_occurrence
                                 \/ ~recurrings[id].is_active
               /\ (Cardinality(DOMAIN due_recurring[w]) = 3 /\ Cardinality(errors[w]) = 1)
                     => processed_count[w] = 2

\* C5 witness: a pass over 3 due definitions ended, the store failed for the
\* 2nd one only (a DAILY definition), 2 are reported and 1 error.
C5_Witness ==
    \E w \in Workers :
        /\ pc[w] = "done"
        /\ Cardinality(DOMAIN due_recurring[w]) = 3
        /\ faults = 1
        /\ processed_count[w] = 2
        /\ \E e \in errors[w] :
              /\ errors[w] = {e}
              /\ e.position = 2
              /\ due_recurring[w][e.id].frequency = "DAILY"
              /\ recurrings[e.id] = due_recurring[w][e.id]

\* C6: no transaction dated after the end_date of its definition is ever
\* materialized, whatever dates the definition was created with (stated for
\* runs without edits, in which end_date keeps its value).
C6_NoTransactionAfterEndDate ==
    Undisturbed
        => \A t \in Rows :
              recurrings[t.recurring_id].end_date # None
                  => t.date <= recurrings[t.recurring_id].end_date

\* a step creates a transaction of definition id
Materializes(id) ==
    \E t \in BagToSet(transactions') :
        t.recurring_id = id /\ CopiesIn(t, transactions') > CopiesIn(t, transactions)

\* worker w starts a pass in this step
Starts(w) == pc[w] \in {"idle", "done"} /\ pc'[w] = "loop"

\* the step is an update through the API or the admin
IsEdit == edits' # edits

\* C7 (as claimed): once is_active is false it stays false.
C7_InactiveIsTerminal ==
    [][\A id \in Ids : ~recurrings[id].is_active => ~recurrings'[id].is_active]_vars

\* C7 (amended): a definition that is inactive when a pass starts is not
\* selected by it; an inactive definition gets a transaction or a change of
\* its fields only from an API / admin update or from a pass that fetched it
\* while it was active (recurring.save() writes every field as fetched), so
\* only those can set is_active back to true.
C7_InactiveSkippedByLaterPasses ==
    [][\A id \in Ids :
          ~recurrings[id].is_active
              => /\ \A w \in Workers : Starts(w) => id \notin DOMAIN due_recurring'[w]
                 /\ Materializes(id)
                       => \E w \in Workers :
                             /\ id \in pending[w]
                             /\ due_recurring[w][id].is_active
                 /\ recurrings'[id] # recurrings[id]
                       => \/ IsEdit
                          \/ \E w \in Workers :
                                /\ pc[w] = "created" /\ current[w] = id
                                /\ Fetched(w).is_active]_vars

\* C7 witness: the first pass terminated the definition; the second pass,
\* run when it would be due by its date, is over and made nothing of it.
C7_Witness ==
    \E w \in Workers :
        /\ pc[w] = "done" /\ pass_id[w] = 2
        /\ Undisturbed
        /\ ~recurrings[1].is_active
        /\ recurrings[1].next_occurrence <= today[w]
        /\ MadeIn(1, 1) /\ ~MadeIn(1, 2)
        /\ 1 \notin DOMAIN due_recurring[w]

\* C8: a pass that reads the date asOf selects exactly the definitions with
\* is_active true and next_occurrence <= asOf (next_occurrence = asOf is in,
\* asOf + 1 day and inactive ones are out); it creates transactions from and
\* changes selected definitions only, and when it ends every selected
\* definition has been iterated.
C8_PassProcessesActiveAndDue ==
    [][\A w \in Workers :
          /\ Starts(w)
                => /\ today'[w] = clock
                   /\ DOMAIN due_recurring'[w]
                         = {id \in Ids : /\ recurrings[id].is_active = TRUE
                                         /\ recurrings[id].next_occurrence <= clock}
          /\ \A id \in Ids :
                (~IsEdit /\ (Materializes(id) \/ recurrings'[id] # recurrings[id]))
                    => \E v \in Workers : id \in DOMAIN due_recurring[v]
          /\ (pc[w] = "loop" /\ pc'[w] = "done")
                => \A id \in DOMAIN due_recurring[w] :
                      MadeIn(id, pass_id[w]) \/ id \in ErrorIds(w)]_vars

\* C8 witness: a pass is over that materialized a definition whose
\* next_occurrence was the very date of the pass.
C8_Witness ==
    \E w \in Workers :
        /\ pc[w] = "done"
        /\ \E id \in DOMAIN due_recurring[w] :
              /\ due_recurring[w][id].next_occurrence = today[w]
              /\ Created(id, today[w], pass_id[w]) = 1

\* worker w saves the definition of its iteration in this step (lines 40-48)
Saves(w) ==
    pc[w] = "created" /\ pc'[w] = "loop" /\ processed_count'[w] = processed_count[w] + 1

\* C9: after materializing, the definition is saved active with the computed
\* next date exactly when a next date was computed and end_date is absent or
\* next date <= end_date; otherwise is_active is set false and the cursor is
\* left (next date = end_date stays active, end_date + 1 day terminates).
C9_ActiveIffNextWithinEndDate ==
    [][\A w \in Workers :
          Saves(w)
              => LET id == current[w]
                     end == Fetched(w).end_date
                     next == calculate_next_occurrence(Fetched(w)).value
                     keep == next # None /\ (end = None \/ next <= end)
                 IN  /\ recurrings'[id].is_active = keep
                     /\ recurrings'[id].next_occurrence
                           = (IF keep THEN next ELSE Fetched(w).next_occurrence)
                     /\ (end # None /\ next = end) => recurrings'[id].is_active
                     /\ (end # None /\ Return(next) = AddDays(end, 1))
                           => ~recurrings'[id].is_active]_vars

\* C9 witness: WEEKLY with end_date = next_occurrence = 2024-01-08: the
\* 2024-01-08 transaction exists, is_active is false.
C9_Witness ==
    /\ Undisturbed
    /\ recurrings[1] = Row("WEEKLY", 20240108, 20240108, 20240108, FALSE)
    /\ Created(1, 20240108, 1) = 1

\* C10: in one pass a definition produces at most one transaction, and a
\* save of the pass moves its cursor by exactly one period from the fetched
\* cursor, however many periods are due.
C10_OnePeriodPerPass ==
    /\ [](\A t1, t2 \in Rows :
            /\ CopiesIn(t1, transactions) = 1
            /\ (t1.recurring_id = t2.recurring_id /\ t1.pass = t2.pass) => t1 = t2)
    /\ [][\A w \in Workers :
            (Saves(w) /\ recurrings'[current[w]].is_active)
                => /\ Return(recurrings'[current[w]].next_occurrence)
                         = calculate_next_occurrence(Fetched(w))
                   /\ recurrings'[current[w]].next_occurrence
                         > Fetched(w).next_occurrence]_vars

\* C10 witness: a MONTHLY definition 3 months behind on 2024-01-31 after two
\* passes on that day: one transaction per pass, the cursor still behind.
C10_Witness ==
    \E w \in Workers :
        /\ pc[w] = "done" /\ pass_id[w] = 2 /\ today[w] = 20240131
        /\ Undisturbed
        /\ pass_dates = <<20240131, 20240131>>
        /\ recurrings[1].frequency = "MONTHLY"
        /\ recurrings[1].next_occurrence = 20231230
        /\ recurrings[1].is_active
        /\ Created(1, 20231030, 1) = 1 /\ Created(1, 20231130, 2) = 1
        /\ BagCardinality(transactions) = 2

\* the transaction rows a step adds
Added == {t \in BagToSet(transactions') : CopiesIn(t, transactions') > CopiesIn(t, transactions)}

\* C11: the rows a pass fetches are the definitions as they are when it
\* selects them, and every transaction it creates copies user, amount,
\* description, category and transaction_type from the fetched definition, is
\* dated with the fetched next_occurrence (not with the date of the pass, even
\* when the pass runs late), has is_recurring true and carries the
\* definition's id in its notes.
C11_TransactionCopiesDefinition ==
    [][\A w \in Workers :
          /\ Starts(w)
                => \A id \in DOMAIN due_recurring'[w] : due_recurring'[w][id] = recurrings[id]
          /\ (pc[w] = "loop" /\ pc'[w] = "created")
                => \E t \in Added :
                      LET def == due_recurring[w][current'[w]]
                      IN  /\ Added = {t}
                          /\ CopiesIn(t, transactions') = CopiesIn(t, transactions) + 1
                          /\ t.user = def.user
                          /\ t.amount = def.amount
                          /\ t.description = def.description
                          /\ t.category = def.category
                          /\ t.transaction_type = def.transaction_type
                          /\ t.date = def.next_occurrence
                          /\ t.is_recurring = TRUE
                          /\ t.recurring_id = current'[w]
                          /\ recurrings[current'[w]].user = t.user
                          /\ recurrings[current'[w]].amount = t.amount]_vars

\* C11 witness: a pass run on 2024-01-31 made, for definition 2 (owner 1,
\* salary, INCOME, category 2) due since 2024-01-08, a transaction dated
\* 2024-01-08 with the columns of definition 2.
C11_Witness ==
    \E t \in Rows :
        /\ t.recurring_id = 2 /\ t.is_recurring
        /\ pass_dates[t.pass] = 20240131
        /\ t.date = 20240108
        /\ t.user = 1 /\ t.amount = 5000 /\ t.description = "salary"
        /\ t.category = 2 /\ t.transaction_type = "INCOME"
        /\ recurrings[2].start_date = 20240108

\* C12: for every cursor date and each of the six frequencies the command
\* computes a date, and that date is strictly later than the cursor.
C12_NextOccurrenceStrictlyLater ==
    \A w \in Workers :
        (pc[w] = "created" /\ Fetched(w).frequency \in Frequencies)
            => /\ ~calculate_next_occurrence(Fetched(w)).raised
               /\ calculate_next_occurrence(Fetched(w)).value > Fetched(w).next_occurrence

\* the calendar month k months after the month of cur, as <<year, month>>
MonthAfter(cur, k) ==
    LET total == YearOf(cur) * 12 + (MonthOf(cur) - 1) + k
    IN  <<total \div 12, (total % 12) + 1>>

\* the day of cur in the month k months later, or the last day of that
\* month when it has no such day
MonthsLater(cur, k) ==
    LET ym == MonthAfter(cur, k)
        last == DaysInMonth(ym[1], ym[2])
    IN  MkDate(ym[1], ym[2], IF DayOf(cur) <= last THEN DayOf(cur) ELSE last)

\* C13: for a QUARTERLY definition whose target month is not past year 9999
\* the computation does not fail, and the cursor saved is the same
\* day-of-month 3 months ahead (the year one more when the month passes
\* December), or the last day of the target month when the day does not exist
\* there (2024-11-30 gives 2025-02-28).
C13_QuarterlySameDayOrClamped ==
    /\ [](\A w \in Workers :
            (/\ pc[w] = "created" /\ Fetched(w).frequency = "QUARTERLY"
             /\ MonthAfter(Fetched(w).next_occurrence, 3)[1] <= MAXYEAR)
                => ~calculate_next_occurrence(Fetched(w)).raised)
    /\ [][\A w \in Workers :
            (Saves(w) /\ Fetched(w).frequency = "QUARTERLY")
                => LET cur == Fetched(w).next_occurrence
                       new == recurrings'[current[w]].next_occurrence
                       target == MonthAfter(cur, 3)
                   IN  /\ recurrings'[current[w]].is_active
                       /\ new = MonthsLater(cur, 3)
                       /\ MonthOf(new) = ((MonthOf(cur) + 2) % 12) + 1
                       /\ YearOf(new) = YearOf(cur) + (IF MonthOf(cur) >= 10 THEN 1 ELSE 0)
                       /\ DayOf(cur) <= DaysInMonth(target[1], target[2])
                             => DayOf(new) = DayOf(cur)
                       /\ DayOf(cur) > DaysInMonth(target[1], target[2])
                             => DayOf(new) = DaysInMonth(target[1], target[2])
                       /\ cur = 20241130 => new = 20250228]_vars

\* C13 witness: the QUARTERLY definition due on 2024-11-30 was materialized
\* and its cursor saved as 2025-02-28.
C13_Witness ==
    /\ recurrings[1].frequency = "QUARTERLY"
    /\ recurrings[1].start_date = 20241130
    /\ Created(1, 20241130, 1) = 1
    /\ recurrings[1].next_occurrence = 20250228
    /\ recurrings[1].is_active

\* C14: for a YEARLY definition not in year 9999 the computation does not
\* fail, and the cursor saved is the same month and day in the next year,
\* except that Feb 29 followed by a non-leap year gives Feb 28 of that year
\* (2024-02-29 gives 2025-02-28).
C14_YearlySameDayOrFeb28 ==
    /\ [](\A w \in Workers :
            (/\ pc[w] = "created" /\ Fetched(w).frequency = "YEARLY"
             /\ YearOf(Fetched(w).next_occurrence) < MAXYEAR)
                => ~calculate_next_occurrence(Fetched(w)).raised)
    /\ [][\A w \in Workers :
            (Saves(w) /\ Fetched(w).frequency = "YEARLY")
                => LET cur == Fetched(w).next_occurrence
                       new == recurrings'[current[w]].next_occurrence
                       leapDay == MonthOf(cur) = 2 /\ DayOf(cur) = 29
                   IN  /\ recurrings'[current[w]].is_active
                       /\ YearOf(new) = YearOf(cur) + 1
                       /\ MonthOf(new) = MonthOf(cur)
                       /\ DayOf(new) = (IF leapDay /\ ~IsLeap(YearOf(cur) + 1)
                                        THEN 28 ELSE DayOf(cur))
                       /\ cur = 20240229 => new = 20250228]_vars

\* C14 witness: the YEARLY definition due on 2024-02-29 was materialized and
\* its cursor saved as 2025-02-28.
C14_Witness ==
    /\ recurrings[1].frequency = "YEARLY"
    /\ recurrings[1].start_date = 20240229
    /\ Created(1, 20240229, 1) = 1
    /\ recurrings[1].next_occurrence = 20250228
    /\ recurrings[1].is_active

\* the calendar date n days after dt
RECURSIVE DaysLater(_, _)
DaysLater(dt, n) == IF n = 0 THEN dt ELSE DaysLater(DayAfter(dt), n - 1)

\* the days a frequency of fixed length advances the cursor by
PeriodDays(f) == CASE f = "DAILY" -> 1 [] f = "WEEKLY" -> 7 [] f = "BIWEEKLY" -> 14

\* C15: for DAILY, WEEKLY and BIWEEKLY definitions whose next date is not
\* past 9999-12-31 the computation does not fail and the cursor saved is the
\* fetched cursor plus exactly 1, 7 and 14 days, across month and year ends;
\* a DAILY definition with start 2024-01-01 and no end_date processed on
\* 2024-01-01 has, after the pass, one transaction, dated 2024-01-01,
\* next_occurrence 2024-01-02 and is_active true.
C15_FixedPeriodsAndDailyScenario ==
    /\ [](\A w \in Workers :
            /\ (/\ pc[w] = "created"
                 /\ Fetched(w).frequency \in {"DAILY", "WEEKLY", "BIWEEKLY"}
                 /\ YearOf(DaysLater(Fetched(w).next_occurrence,
                                     PeriodDays(Fetched(w).frequency))) <= MAXYEAR)
                    => ~calculate_next_occurrence(Fetched(w)).raised
            /\ (/\ pc[w] = "done"
                 /\ recurrings[1].frequency = "DAILY"
                 /\ recurrings[1].start_date = 20240101
                 /\ recurrings[1].end_date = None
                 /\ pass_dates = <<20240101>>)
                    => /\ Created(1, 20240101, 1) = 1
                       /\ \A t \in Rows : t.recurring_id = 1 => t.date = 20240101
                       /\ recurrings[1].next_occurrence = 20240102
                       /\ recurrings[1].is_active)
    /\ [][\A w \in Workers :
            (Saves(w) /\ Fetched(w).frequency \in {"DAILY", "WEEKLY", "BIWEEKLY"})
                => /\ recurrings'[current[w]].is_active
                   /\ recurrings'[current[w]].next_occurrence
                         = DaysLater(Fetched(w).next_occurrence,
                                     PeriodDays(Fetched(w).frequency))]_vars

\* C15 witness: the pass of 2024-01-01 over the DAILY definition started on
\* 2024-01-01 is over: its transaction of 2024-01-01 exists, the cursor is
\* 2024-01-02.
C15_Witness ==
    \E w \in Workers :
        /\ pc[w] = "done"
        /\ pass_dates = <<20240101>>
        /\ recurrings[1].frequency = "DAILY"
        /\ recurrings[1].start_date = 20240101
        /\ Created(1, 20240101, 1) = 1
        /\ recurrings[1].next_occurrence = 20240102
        /\ recurrings[1].is_active

\* C16: when a pass is over, a definition it selected whose frequency is
\* outside the six known values is inactive and is recorded as an error of
\* the pass, and every other selected definition was processed.
C16_UnknownFrequencyTerminatedWithError ==
    \A w \in Workers :
        pc[w] = "done"
            => \A id \in DOMAIN due_recurring[w] :
                  due_recurring[w][id].frequency \notin Frequencies
                      => /\ ~recurrings[id].is_active
                         /\ id \in ErrorIds(w)
                         /\ \A other \in DOMAIN due_recurring[w] \ {id} :
                               MadeIn(other, pass_id[w])

\* the date after the cursor of row does not exist: it lies past 9999-12-31
Overflows(row) ==
    LET cur == row.next_occurrence
    IN  CASE row.frequency \in {"DAILY", "WEEKLY", "BIWEEKLY"}
                -> YearOf(DaysLater(cur, PeriodDays(row.frequency))) > MAXYEAR
          [] row.frequency = "MONTHLY" -> MonthAfter(cur, 1)[1] > MAXYEAR
          [] row.frequency = "QUARTERLY" -> MonthAfter(cur, 3)[1] > MAXYEAR
          [] row.frequency = "YEARLY" -> YearOf(cur) = MAXYEAR
          [] OTHER -> FALSE

\* C17: when a pass is over, a definition it selected whose next date would
\* lie past the last representable date is inactive and is recorded as an
\* error of the pass.
C17_OverflowTerminatedWithError ==
    \A w \in Workers :
        pc[w] = "done"
            => \A id \in DOMAIN due_recurring[w] :
                  Overflows(due_recurring[w][id])
                      => /\ ~recurrings[id].is_active
                         /\ id \in ErrorIds(w)

\* C18: a pass that has started reaches its final report whatever errors
\* its iterations raise (a store failure at the create or at the save, an
\* exception of the date computation), also when every selected definition
\* errors; at the report every selected definition has been iterated and is
\* either counted or recorded as an error.
C18_PassAlwaysCompletes ==
    /\ \A w \in Workers : (pc[w] \in {"loop", "created"}) ~> (pc[w] = "done")
    /\ [](\A w \in Workers :
            /\ pc[w] \in {"idle", "loop", "created", "done"}
            /\ pc[w] = "done"
                  => /\ pending[w] = {}
                     /\ processed_count[w] + Cardinality(ErrorIds(w))
                           = Cardinality(DOMAIN due_recurring[w]))

\* C18 witness: the pass over 3 due definitions reported 0 processed: each
\* of the 3 iterations ended in the except branch.
C18_Witness ==
    \E w \in Workers :
        /\ pc[w] = "done"
        /\ Cardinality(DOMAIN due_recurring[w]) = 3
        /\ ErrorIds(w) = DOMAIN due_recurring[w]
        /\ processed_count[w] = 0

\* number of transactions pass p created
CreatedInPass(p) ==
    LET made == {t \in Rows : t.pass = p}
    IN  BagCardinality([t \in made |-> transactions[t]])

\* C19: the count a pass reports equals the number of Transaction rows it
\* created, and every definition whose iteration failed is among its errors
\* and left no transaction that the count misses (stated for passes without
\* store failure, interruption or edit).
C19_CountEqualsCreated ==
    \A w \in Workers :
        (pc[w] = "done" /\ Undisturbed)
            => /\ processed_count[w] = CreatedInPass(pass_id[w])
               /\ \A id \in DOMAIN due_recurring[w] :
                     id \in ErrorIds(w) <=> ~MadeIn(id, pass_id[w])

\* C20: every definition has next_occurrence >= start_date, in every
\* reachable state.
C20_NextOccurrenceNotBeforeStart ==
    \A id \in Ids : recurrings[id].next_occurrence >= recurrings[id].start_date

\* C21: every create request through the API is answered with the stored
\* definition, which is active and has next_occurrence equal to the first
\* date the caller supplied, or to its start_date when none was supplied.
C21_CreatedActiveAndDueOnStart ==
    response.status # 0
        => /\ response.status = 201
           /\ response.id \in Ids
           /\ recurrings[response.id].is_active
           /\ recurrings[response.id].start_date = response.request.start_date
           /\ recurrings[response.id].next_occurrence
                 = (IF response.request.next_occurrence # None
                    THEN response.request.next_occurrence
                    ELSE response.request.start_date)

\* the columns of a definition a pass has no business with
KeptColumns(row) ==
    <<row.user, row.amount, row.description, row.category, row.transaction_type,
      row.frequency, row.start_date, row.end_date>>

\* C22: a step of a pass changes a stored definition only if it is the one
\* the pass is processing, and then it changes only next_occurrence, moving
\* it forward, or only is_active, setting it false; user, amount,
\* description, category, transaction_type, frequency, start_date and
\* end_date stay as stored, and no definition is deleted.
C22_PassChangesCursorOrActiveOnly ==
    [][~IsEdit
          => /\ DOMAIN recurrings' = DOMAIN recurrings
             /\ \A id \in Ids :
                   recurrings'[id] # recurrings[id]
                       => /\ \E w \in Workers : pc[w] = "created" /\ current[w] = id
                          /\ KeptColumns(recurrings'[id]) = KeptColumns(recurrings[id])
                          /\ \/ /\ recurrings'[id].next_occurrence
                                       > recurrings[id].next_occurrence
                                /\ recurrings'[id].is_active = recurrings[id].is_active
                             \/ /\ recurrings'[id].next_occurrence
                                       = recurrings[id].next_occurrence
                                /\ recurrings[id].is_active
                                /\ ~recurrings'[id].is_active]_vars

\* C23: after every pass that processed a definition with no end_date and
\* one of the six frequencies, the definition is still active and its
\* next_occurrence is the advanced date (stated for passes without store
\* failure, interruption or edit).
C23_UnboundedStaysActiveAndAdvances ==
    \A w \in Workers :
        (pc[w] = "done" /\ Undisturbed)
            => \A id \in DOMAIN due_recurring[w] :
                  (/\ due_recurring[w][id].end_date = None
                   /\ due_recurring[w][id].frequency \in Frequencies)
                      => /\ recurrings[id].is_active
                         /\ recurrings[id].next_occurrence
                               > due_recurring[w][id].next_occurrence

\* C24 (as claimed): no step of the system removes or changes an existing
\* transaction record; records are only added.
C24_TransactionsAppendOnly ==
    [][\A t \in Rows : CopiesIn(t, transactions') >= CopiesIn(t, transactions)]_vars

\* the step is a step of a pass
IsPassStep == passVars' # passVars

\* C24 (amended): a pass never modifies or deletes an existing transaction
\* record, it only adds records; an existing record disappears or changes
\* only by an update or delete of its owner through the transaction API (one
\* record per request), or by the cleanup task, which deletes exactly the
\* records created more than 7 * 365 days before it runs.
C24_PassesAppendOnly ==
    [][/\ IsPassStep
            => \A t \in Rows : CopiesIn(t, transactions') >= CopiesIn(t, transactions)
       /\ \A t \in Rows :
             CopiesIn(t, transactions') < CopiesIn(t, transactions)
                 => \/ /\ IsEdit
                       /\ CopiesIn(t, transactions') = CopiesIn(t, transactions) - 1
                       /\ BagCardinality(transactions') >= BagCardinality(transactions) - 1
                    \/ /\ ~IsEdit /\ ~IsPassStep
                       /\ ToOrdinal(CreatedOn(t)) + 7 * 365 < ToOrdinal(clock)
                       /\ CopiesIn(t, transactions') = 0
                       /\ \A u \in Rows :
                             ToOrdinal(CreatedOn(u)) + 7 * 365 >= ToOrdinal(clock)
                                 => CopiesIn(u, transactions') = CopiesIn(u, transactions)]_vars

\* C24 witness: the transaction the pass of 2024-01-08 made is gone on
\* 2031-02-01, with no failure and no API request, while the one the pass of
\* 2031-02-01 made is there.
C24_Witness ==
    /\ Undisturbed
    /\ pass_dates = <<20240108, 20310201>>
    /\ clock = 20310201
    /\ recurrings[1].next_occurrence > 20240108
    /\ ~MadeIn(1, 1)
    /\ MadeIn(1, 2)

\* C25: when passes overlap, a definition due in both is materialized once
\* per occurrence: no two transactions of a definition carry the same date.
C25_OverlappingPassesMaterializeOnce ==
    \A t1, t2 \in Rows :
        (t1.recurring_id = t2.recurring_id /\ t1.date = t2.date)
            => /\ t1.pass = t2.pass
               /\ CopiesIn(t1, transactions) = 1

\* what a pass makes of one definition, from the row it fetched alone: the
\* row it leaves in the table
OutcomeOf(row) ==
    IF calculate_next_occurrence(row).raised THEN row
    ELSE Advanced(row, calculate_next_occurrence(row).value)

\* C26: the outcome of a pass for one definition depends only on that
\* definition and on the date of the pass: whatever the order in which the
\* pass iterates the due definitions, at its end each selected definition
\* is in the state determined by its own fetched row, a definition that was
\* not due is as it was created, and the transactions are exactly one per
\* selected definition, made of its own fetched row (stated for passes without
\* store failure or interruption).
C26_OutcomeIndependentOfOrder ==
    \A w \in Workers :
        (pc[w] = "done" /\ Undisturbed)
            => /\ \A id \in DOMAIN due_recurring[w] :
                     recurrings[id] = OutcomeOf(due_recurring[w][id])
               /\ \A id \in Ids \ DOMAIN due_recurring[w] :
                     /\ recurrings[id].next_occurrence > today[w]
                     /\ recurrings[id].next_occurrence = recurrings[id].start_date
                     /\ recurrings[id].is_active
               /\ transactions
                     = SetToBag({NewTransaction(id, due_recurring[w][id], pass_id[w]) :
                                    id \in DOMAIN due_recurring[w]})

\* C26 witness: a pass of 2024-01-31 over three due definitions is over: the
\* DAILY definitions 1 and 3, due since 2024-01-08, are advanced to
\* 2024-01-09, the MONTHLY definition 2 of 2024-01-31 is as fetched.
C26_Witness ==
    \E w \in Workers :
        /\ pc[w] = "done" /\ Undisturbed
        /\ today[w] = 20240131
        /\ DOMAIN due_recurring[w] = {1, 2, 3}
        /\ recurrings[1].frequency = "DAILY" /\ recurrings[1].next_occurrence = 20240109
        /\ recurrings[2].frequency = "MONTHLY" /\ recurrings[2].next_occurrence = 20240131
        /\ recurrings[3].frequency = "DAILY" /\ recurrings[3].next_occurrence = 20240109
        /\ BagCardinality(transactions) = 3

\* C27: under the passes of successive days every active definition with
\* an end_date becomes inactive after finitely many transactions. Stated as
\* the progress that makes it so: each pass that processed such a definition
\* leaves it inactive or with a cursor later than the one it fetched, and
\* none of its transactions is dated after the cursor a terminated definition
\* stopped at (a pass that leaves the row as it fetched it is repeated by
\* every later pass, with one more transaction each time).
C27_BoundedSeriesTerminates ==
    \A w \in Workers :
        pc[w] = "done"
            => \A id \in DOMAIN due_recurring[w] :
                  due_recurring[w][id].end_date # None
                      => /\ \/ ~recurrings[id].is_active
                            \/ recurrings[id].next_occurrence
                                  > due_recurring[w][id].next_occurrence
                         /\ Created(id, due_recurring[w][id].next_occurrence, pass_id[w]) = 1

\* the transaction pass p made of definition id, when there is one
MadeBy(id, p) == {t \in Rows : t.recurring_id = id /\ t.pass = p}

\* C28: the transactions of a definition, in the order of the passes that
\* made them, are dated d0 = the next_occurrence it was created with and
\* d(i+1) = calculate_next_occurrence(d(i)), each date once, and a pass that
\* materialized an active definition left its next_occurrence later than it
\* fetched it.
C28_DatesFormTheChain ==
    /\ \A t \in Rows :
          /\ CopiesIn(t, transactions) = 1
          /\ t.pass = 1 => t.date = recurrings[t.recurring_id].start_date
    /\ \A t1, t2 \in Rows :
          (t1.recurring_id = t2.recurring_id /\ t2.pass = t1.pass + 1)
              => Return(t2.date)
                    = calculate_next_occurrence(
                          [recurrings[t1.recurring_id] EXCEPT !.next_occurrence = t1.date])
    /\ \A w \in Workers :
          pc[w] = "done"
              => \A id \in DOMAIN due_recurring[w] :
                    recurrings[id].is_active
                        => recurrings[id].next_occurrence
                              > due_recurring[w][id].next_occurrence

\* C29: over the advances of a QUARTERLY or YEARLY definition the
\* day-of-month of the cursor never increases: every save leaves a day no
\* later than the fetched one, every transaction and the cursor have a day no
\* later than the transactions before them, a series started on 2024-11-30
\* goes on 2025-02-28 and 2025-05-28, and a YEARLY series started on Feb 29
\* has day 28 ever after.
C29_ClampedDayIsKept ==
    /\ [][\A w \in Workers :
            (Saves(w) /\ Fetched(w).frequency \in {"QUARTERLY", "YEARLY"})
                => DayOf(recurrings'[current[w]].next_occurrence)
                      <= DayOf(Fetched(w).next_occurrence)]_vars
    /\ [](\A t \in Rows :
            LET def == recurrings[t.recurring_id]
            IN  def.frequency \in {"QUARTERLY", "YEARLY"}
                    => /\ DayOf(def.next_occurrence) <= DayOf(t.date)
                       /\ DayOf(t.date) <= DayOf(def.start_date)
                       /\ \A u \in Rows :
                             (u.recurring_id = t.recurring_id /\ u.pass > t.pass)
                                 => DayOf(u.date) <= DayOf(t.date)
                       /\ (def.frequency = "QUARTERLY" /\ t.date = 20250228
                              /\ def.next_occurrence # t.date)
                             => def.next_occurrence = 20250528
                       /\ (def.frequency = "YEARLY" /\ def.start_date = 20240229)
                             => /\ t.date \in {20240229, 20250228}
                                /\ def.next_occurrence \in {20240229, 20250228, 20260228})

\* C29 witness: the QUARTERLY series started on 2024-11-30 after two
\* passes: transactions of 2024-11-30 and 2025-02-28, cursor 2025-05-28.
C29_Witness ==
    /\ recurrings[1].frequency = "QUARTERLY"
    /\ recurrings[1].start_date = 20241130
    /\ Created(1, 20241130, 1) = 1
    /\ Created(1, 20250228, 2) = 1
    /\ recurrings[1].next_occurrence = 20250528
    /\ recurrings[1].is_active

\* C30: after any sequence of update_progress requests on a goal that
\* started not achieved and below its target, current_amount does not exceed
\* target_amount and is_achieved is true exactly when current_amount equals
\* target_amount.
C30_AchievedIffAtTarget ==
    /\ goal.current_amount <= goal.target_amount
    /\ goal.is_achieved <=> (goal.current_amount = goal.target_amount)

====
